---- MODULE Spec2Model ----
(***************************************************************************)
(* A model of three parts of prisma-engines:                               *)
(*   - the InferMigrationSteps command                                     *)
(*     (migration-engine/core/src/commands/infer_migration_steps.rs),      *)
(*   - the dml Model's index / timestamp predicates                        *)
(*     (libs/datamodel/connectors/dml/src/model.rs),                       *)
(*   - the parser database's UniqueCriteriaWalker                          *)
(*     (libs/datamodel/parser-database/src/walkers/model/                  *)
(*      unique_criteria.rs).                                               *)
(* Each part has its own specification (SpecCmd, SpecModel, SpecTimestamps,*)
(* SpecCriteria); the variables of the other parts stay at Idle.           *)
(***************************************************************************)
EXTENDS Integers, Sequences, FiniteSets, TLC

VARIABLES
    history,   \* persisted migrations, oldest first (migration persistence)
    input,     \* InferMigrationStepsInput
    pc,        \* position inside InferMigrationStepsCommand::execute
    log,       \* collaborator calls made so far, in call order
    local,     \* the let-bindings of execute
    result,    \* what execute returned: nothing yet, Ok(output) or Err(error)
    model,     \* a dml Model
    ret,       \* the last query made on the model / criteria, and its answer
    db,        \* ParserDatabase.types: scalar_fields and composite_type_fields
    criteria   \* UniqueCriteriaWalker.fields

vars == <<history, input, pc, log, local, result, model, ret, db, criteria>>

cmdVars == <<history, input, pc, log, local, result>>
modelVars == <<model>>
criteriaVars == <<db, criteria>>

None == "none"
Idle == "idle"

(***************************************************************************)
(* Bounds.                                                                 *)
(***************************************************************************)
MaxHistory == 2
MaxAssumed == 1

(***************************************************************************)
(* Schemas, abstract steps and the collaborators of the command.           *)
(***************************************************************************)
ModelOrder == <<"A">>
ModelNames == {ModelOrder[i] : i \in 1..Len(ModelOrder)}
Schemas == SUBSET ModelNames

\* The two representations of a schema the command holds side by side.
Ast(s) == [ast |-> s]
Dml(s) == [dml |-> s]
EmptyAst == Ast({})
EmptyDatamodel == Dml({})

MigrationSteps ==
    [op : {"CreateModel", "DeleteModel"}, model : ModelNames]

RECURSIVE SeqsUpTo(_, _)
SeqsUpTo(S, n) ==
    IF n = 0 THEN {<<>>}
    ELSE LET shorter == SeqsUpTo(S, n - 1)
         IN  shorter \cup {Append(s, x) : s \in shorter, x \in S}

Last(s) == s[Len(s)]

\* Migration: a recorded, applied migration; watch migrations are the
\* ephemeral dev-loop ones.
Migrations == [watch : BOOLEAN, schema : Schemas]

\* MigrationPersistence::current_datamodel_ast: the schema of the most recent
\* applied migration of any kind, the empty schema when there is none.
CurrentDatamodelAst(h) ==
    IF h = <<>> THEN EmptyAst ELSE Ast(Last(h).schema)

\* MigrationPersistence::last_non_watch_applied_migration: an Option, <<>> for
\* None and <<m>> for Some(m).
RECURSIVE LastNonWatchAppliedMigration(_)
LastNonWatchAppliedMigration(h) ==
    IF h = <<>> THEN <<>>
    ELSE IF ~Last(h).watch THEN <<Last(h)>>
    ELSE LastNonWatchAppliedMigration(SubSeq(h, 1, Len(h) - 1))

\* DataModelCalculator::infer: the assumed steps applied, in order, on top of
\* the current schema; a step that does not apply is an error.
RECURSIVE CalculatorInfer(_, _)
CalculatorInfer(ast, steps) ==
    IF steps = <<>> THEN [ok |-> TRUE, ast |-> ast]
    ELSE LET st == Head(steps)
         IN  IF st.op = "CreateModel" /\ st.model \notin ast.ast
             THEN CalculatorInfer(Ast(ast.ast \cup {st.model}), Tail(steps))
             ELSE IF st.op = "DeleteModel" /\ st.model \in ast.ast
             THEN CalculatorInfer(Ast(ast.ast \ {st.model}), Tail(steps))
             ELSE [ok |-> FALSE, ast |-> None]

\* datamodel::lift_ast
LiftAst(ast) == Dml(ast.ast)

\* DataModelMigrationStepsInferrer::infer: the differ, models matched by name,
\* steps emitted in a fixed order.
RECURSIVE StepsInferFrom(_, _, _)
StepsInferFrom(i, before, after) ==
    IF i > Len(ModelOrder) THEN <<>>
    ELSE LET m == ModelOrder[i]
             here == IF m \in after.ast \ before.ast
                         THEN <<[op |-> "CreateModel", model |-> m]>>
                     ELSE IF m \in before.ast \ after.ast
                         THEN <<[op |-> "DeleteModel", model |-> m]>>
                     ELSE <<>>
         IN  here \o StepsInferFrom(i + 1, before, after)

StepsInfer(before, after) == StepsInferFrom(1, before, after)

\* DatabaseMigrationInferrer::infer / infer_from_datamodels: the concrete
\* plan, a function of (before, after, abstract steps) only.
DatabaseMigration(before, after, steps) ==
    [from |-> before.dml, to |-> after.dml, steps |-> steps]

\* DatabaseMigrationStepApplier::render_steps_pretty: one rendered value per
\* operation of the plan.
RenderStepsPretty(plan) ==
    [i \in 1..Len(plan.steps) |->
        [pretty |-> plan.steps[i], from |-> plan.from, to |-> plan.to]]

\* datamodel::render_datamodel_to_string
RenderDatamodelToString(dm) == [text |-> "valid", schema |-> dm.dml]

\* The reports the destructive changes checker may return.
Diagnostics ==
    [warnings : {<<>>, <<"w1">>, <<"w1", "w2">>, <<"w2", "w1">>},
     errors : {<<>>, <<"e1">>}]

\* Errors a collaborator may fail with.
Errors == {"io", "user"}

(***************************************************************************)
(* The command's input.                                                    *)
(***************************************************************************)
WatchPrefix == <<"w", "a", "t", "c", "h">>

MigrationIds ==
    { <<"w", "a", "t", "c", "h">>,
      <<"w", "a", "t", "c", "h", "-", "1">>,
      <<"w", "a", "t">>,
      <<"m", "-", "w", "a", "t", "c", "h">> }

\* The target schema's source text: well-formed text of a schema, text that
\* does not parse, or text that parses and does not validate.
DatamodelTexts ==
    [text : {"valid"}, schema : Schemas]
        \cup {[text |-> "syntax_error", schema |-> {}],
              [text |-> "validation_error", schema |-> {}]}

Inputs ==
    [migration_id : MigrationIds,
     datamodel : DatamodelTexts,
     assume_to_be_applied : SeqsUpTo(MigrationSteps, MaxAssumed)]

\* str::starts_with
StartsWith(s, prefix) ==
    /\ Len(s) >= Len(prefix)
    /\ SubSeq(s, 1, Len(prefix)) = prefix

\* Mutant of IsWatchMigration: the identifier compared whole, not by prefix.
IsWatchMigrationExact(in) == in.migration_id = WatchPrefix

IsWatchMigration(in) == StartsWith(in.migration_id, WatchPrefix)

\* ast::parser::parse: the text to a schema AST; fails on text that does not
\* parse.
Parse(text) ==
    IF text.text = "syntax_error"
        THEN [ok |-> FALSE, value |-> None]
        ELSE [ok |-> TRUE, value |-> Ast(text.schema)]

\* parse_datamodel: the text parsed and validated into a datamodel.
ParseDatamodel(text) ==
    IF text.text = "valid"
        THEN [ok |-> TRUE, value |-> Dml(text.schema)]
        ELSE [ok |-> FALSE, value |-> None]

\* The outcomes of a call to a collaborator that does I/O or validates.
Outcomes == {[ok |-> TRUE, err |-> None]} \cup [ok : {FALSE}, err : Errors]

(***************************************************************************)
(* InferMigrationStepsCommand::execute, one action per call it makes.      *)
(***************************************************************************)
NoLocals ==
    [current_datamodel_ast |-> None, assumed_datamodel_ast |-> None,
     assumed_datamodel |-> None, next_datamodel |-> None,
     next_datamodel_ast |-> None, model_migration_steps |-> None,
     database_migration |-> None, checked_database_migration |-> None,
     diagnostics |-> None,
     last_non_watch_datamodel_ast |-> None, last_non_watch_datamodel |-> None,
     datamodel_steps |-> None, full_database_migration |-> None,
     returned_datamodel_steps |-> None, returned_database_migration |-> None]

Call(op, ok, err) == [op |-> op, ok |-> ok, err |-> err]

NoResult == [kind |-> "none"]

\* Mutant of Propagate: a failed call is tried a second time before the error
\* is returned.
PropagateAfterRetry(op, e) ==
    /\ pc' = IF \E i \in DOMAIN log : log[i].op = op THEN "failed" ELSE pc
    /\ log' = Append(log, Call(op, FALSE, e))
    /\ result' = IF \E i \in DOMAIN log : log[i].op = op
                     THEN [kind |-> "err", stage |-> op, error |-> e]
                     ELSE result
    /\ UNCHANGED <<local, model, ret, db, criteria>>

\* The `?` operator on a failed call: execute returns the error at once.
Propagate(op, e) ==
    /\ pc' = "failed"
    /\ log' = Append(log, Call(op, FALSE, e))
    /\ result' = [kind |-> "err", stage |-> op, error |-> e]
    /\ UNCHANGED <<local, model, ret, db, criteria>>

\* A call that succeeded: the binding is made and execute moves on.
Proceed(op, next, newLocal) ==
    /\ pc' = next
    /\ log' = Append(log, Call(op, TRUE, None))
    /\ local' = newLocal
    /\ UNCHANGED <<result, model, ret, db, criteria>>

\* line 33
FetchCurrentDatamodel ==
    /\ pc = "start"
    /\ Proceed("current_datamodel_ast", "calculate",
               [local EXCEPT !.current_datamodel_ast = CurrentDatamodelAst(history)])
    /\ UNCHANGED <<history, input>>

\* Mutant of CalculateAssumedDatamodel: the assumed schema is also recorded as
\* a watch migration.
CalculateAndRecordAssumedDatamodel ==
    /\ pc = "calculate"
    /\ LET r == CalculatorInfer(local.current_datamodel_ast, input.assume_to_be_applied)
       IN  IF r.ok
               THEN /\ Proceed("calculator_infer", "lift",
                               [local EXCEPT !.assumed_datamodel_ast = r.ast])
                    /\ history' = Append(history, [watch |-> TRUE, schema |-> r.ast.ast])
               ELSE /\ Propagate("calculator_infer", "user")
                    /\ UNCHANGED history
    /\ UNCHANGED input

\* lines 34-36
CalculateAssumedDatamodel ==
    /\ pc = "calculate"
    /\ LET r == CalculatorInfer(local.current_datamodel_ast, input.assume_to_be_applied)
       IN  IF r.ok
               THEN Proceed("calculator_infer", "lift",
                            [local EXCEPT !.assumed_datamodel_ast = r.ast])
               ELSE Propagate("calculator_infer", "user")
    /\ UNCHANGED <<history, input>>

\* line 37
LiftAssumedDatamodel ==
    /\ pc = "lift"
    /\ \E o \in Outcomes :
        IF o.ok
            THEN Proceed("lift_ast", "parse_datamodel",
                         [local EXCEPT !.assumed_datamodel = LiftAst(local.assumed_datamodel_ast)])
            ELSE Propagate("lift_ast", o.err)
    /\ UNCHANGED <<history, input>>

\* line 39
ParseNextDatamodel ==
    /\ pc = "parse_datamodel"
    /\ LET r == ParseDatamodel(input.datamodel)
       IN  IF r.ok
               THEN Proceed("parse_datamodel", "parse",
                            [local EXCEPT !.next_datamodel = r.value])
               ELSE Propagate("parse_datamodel", "user")
    /\ UNCHANGED <<history, input>>

\* line 40
ParseNextDatamodelAst ==
    /\ pc = "parse"
    /\ LET r == Parse(input.datamodel)
       IN  IF r.ok
               THEN Proceed("parse", "steps_infer",
                            [local EXCEPT !.next_datamodel_ast = r.value])
               ELSE Propagate("parse", "user")
    /\ UNCHANGED <<history, input>>

\* lines 42-44
InferModelMigrationSteps ==
    /\ pc = "steps_infer"
    /\ Proceed("steps_infer", "database_infer",
               [local EXCEPT !.model_migration_steps =
                    StepsInfer(local.assumed_datamodel_ast, local.next_datamodel_ast)])
    /\ UNCHANGED <<history, input>>

\* lines 46-48
InferDatabaseMigration ==
    /\ pc = "database_infer"
    /\ \E o \in Outcomes :
        IF o.ok
            THEN Proceed("database_infer", "check",
                         [local EXCEPT !.database_migration =
                              DatabaseMigration(local.assumed_datamodel, local.next_datamodel,
                                                local.model_migration_steps)])
            ELSE Propagate("database_infer", o.err)
    /\ UNCHANGED <<history, input>>

\* Mutant of AfterCheck: the last non-watch migration is fetched in either mode.
AfterCheckAlwaysFull(in) == "last_non_watch"

\* line 55: the branch taken once the check has returned
AfterCheck(in) ==
    IF IsWatchMigration(in) THEN "render_watch" ELSE "last_non_watch"

\* Mutant of CheckedMigration: the check is handed the plan from the current
\* schema, the assumed steps left out.
CheckedMigrationFromCurrent(l) ==
    DatabaseMigration(LiftAst(l.current_datamodel_ast), l.next_datamodel,
                      StepsInfer(l.current_datamodel_ast, l.next_datamodel_ast))

\* line 52: the plan handed to the destructive changes checker
CheckedMigration(l) == l.database_migration

\* lines 50-53: the report on the plan handed over is taken, its warnings are
\* bound, its errors are dropped
CheckDestructiveChanges ==
    /\ pc = "check"
    /\ \E o \in Outcomes :
        IF o.ok
            THEN \E d \in Diagnostics :
                    Proceed("check", AfterCheck(input),
                            [local EXCEPT
                               !.checked_database_migration = CheckedMigration(local),
                               !.diagnostics = d])
            ELSE Propagate("check", o.err)
    /\ UNCHANGED <<history, input>>

\* lines 56-60: watch mode renders the plan that was checked and returns the
\* steps inferred from the assumed schema
RenderWatchSteps ==
    /\ pc = "render_watch"
    /\ \E o \in Outcomes :
        IF o.ok
            THEN Proceed("render_steps_pretty", "output",
                         [local EXCEPT
                            !.returned_datamodel_steps = local.model_migration_steps,
                            !.returned_database_migration =
                                RenderStepsPretty(local.database_migration)])
            ELSE Propagate("render_steps_pretty", o.err)
    /\ UNCHANGED <<history, input>>

\* Migration::datamodel_ast, or SchemaAst::empty (lines 63-66)
LastNonWatchDatamodelAst(m) ==
    IF m = <<>> THEN EmptyAst ELSE Ast(m[1].schema)

\* Migration::datamodel, or Datamodel::empty (lines 67-69)
LastNonWatchDatamodel(m) ==
    IF m = <<>> THEN EmptyDatamodel ELSE Dml(m[1].schema)

\* lines 62-69
FetchLastNonWatchMigration ==
    /\ pc = "last_non_watch"
    /\ LET m == LastNonWatchAppliedMigration(history)
       IN  Proceed("last_non_watch_applied_migration", "steps_infer_full",
                   [local EXCEPT
                      !.last_non_watch_datamodel_ast = LastNonWatchDatamodelAst(m),
                      !.last_non_watch_datamodel = LastNonWatchDatamodel(m)])
    /\ UNCHANGED <<history, input>>

\* lines 70-72
InferStepsSinceLastNonWatch ==
    /\ pc = "steps_infer_full"
    /\ Proceed("steps_infer", "database_infer_full",
               [local EXCEPT !.datamodel_steps =
                    StepsInfer(local.last_non_watch_datamodel_ast, local.next_datamodel_ast)])
    /\ UNCHANGED <<history, input>>

\* lines 76-78
InferFullDatabaseMigration ==
    /\ pc = "database_infer_full"
    /\ \E o \in Outcomes :
        IF o.ok
            THEN Proceed("database_infer_from_datamodels", "render_full",
                         [local EXCEPT !.full_database_migration =
                              DatabaseMigration(local.last_non_watch_datamodel,
                                                local.next_datamodel, local.datamodel_steps)])
            ELSE Propagate("database_infer_from_datamodels", o.err)
    /\ UNCHANGED <<history, input>>

\* Mutant of RenderFullSteps: normal mode renders the plan that was checked.
RenderCheckedSteps(l) == RenderStepsPretty(l.database_migration)

\* lines 79-81: what normal mode hands to the step applier
RenderFullSteps(l) == RenderStepsPretty(l.full_database_migration)

\* lines 79-83
RenderStepsSinceLastNonWatch ==
    /\ pc = "render_full"
    /\ \E o \in Outcomes :
        IF o.ok
            THEN Proceed("render_steps_pretty", "output",
                         [local EXCEPT
                            !.returned_datamodel_steps = local.datamodel_steps,
                            !.returned_database_migration = RenderFullSteps(local)])
            ELSE Propagate("render_steps_pretty", o.err)
    /\ UNCHANGED <<history, input>>

\* Mutant of MigrationStepsResultOutput: the report's errors are passed on.
MigrationStepsResultOutputWithErrors(l) ==
    [datamodel |-> RenderDatamodelToString(l.next_datamodel),
     datamodel_steps |-> l.returned_datamodel_steps,
     database_steps |-> l.returned_database_migration,
     errors |-> l.diagnostics.errors,
     warnings |-> l.diagnostics.warnings,
     general_errors |-> <<>>]

\* lines 88-95
MigrationStepsResultOutput(l) ==
    [datamodel |-> RenderDatamodelToString(l.next_datamodel),
     datamodel_steps |-> l.returned_datamodel_steps,
     database_steps |-> l.returned_database_migration,
     errors |-> <<>>,
     warnings |-> l.diagnostics.warnings,
     general_errors |-> <<>>]

\* lines 86-95: render_datamodel_to_string(..).unwrap() panics when the
\* rendering fails; otherwise execute returns Ok(output).
ReturnOutput ==
    /\ pc = "output"
    /\ \E o \in Outcomes :
        IF o.ok
            THEN /\ pc' = "done"
                 /\ log' = Append(log, Call("render_datamodel_to_string", TRUE, None))
                 /\ result' = [kind |-> "ok", output |-> MigrationStepsResultOutput(local)]
            ELSE /\ pc' = "panicked"
                 /\ log' = Append(log, Call("render_datamodel_to_string", FALSE, o.err))
                 /\ UNCHANGED result
    /\ UNCHANGED <<history, input, local, model, ret, db, criteria>>

CmdInit ==
    /\ history \in SeqsUpTo(Migrations, MaxHistory)
    /\ input \in Inputs
    /\ pc = "start"
    /\ log = <<>>
    /\ local = NoLocals
    /\ result = NoResult
    /\ model = Idle
    /\ ret = Idle
    /\ db = Idle
    /\ criteria = Idle

CmdNext ==
    \/ FetchCurrentDatamodel
    \/ CalculateAssumedDatamodel
    \/ LiftAssumedDatamodel
    \/ ParseNextDatamodel
    \/ ParseNextDatamodelAst
    \/ InferModelMigrationSteps
    \/ InferDatabaseMigration
    \/ CheckDestructiveChanges
    \/ RenderWatchSteps
    \/ FetchLastNonWatchMigration
    \/ InferStepsSinceLastNonWatch
    \/ InferFullDatabaseMigration
    \/ RenderStepsSinceLastNonWatch
    \/ ReturnOutput

SpecCmd == CmdInit /\ [][CmdNext]_vars

(***************************************************************************)
(* Properties of the command.                                              *)
(***************************************************************************)
Ops == [i \in DOMAIN log |-> log[i].op]

IsPrefix(a, b) == Len(a) <= Len(b) /\ SubSeq(b, 1, Len(a)) = a

Count(s, x) == Cardinality({i \in DOMAIN s : s[i] = x})

\* The calls of the first pass, up to and including the destructive check.
FirstPass ==
    <<"current_datamodel_ast", "calculator_infer", "lift_ast", "parse_datamodel",
      "parse", "steps_infer", "database_infer", "check">>

WatchStages ==
    FirstPass \o <<"render_steps_pretty", "render_datamodel_to_string">>

NormalStages ==
    FirstPass \o <<"last_non_watch_applied_migration", "steps_infer",
                   "database_infer_from_datamodels", "render_steps_pretty",
                   "render_datamodel_to_string">>

\* The stage of the pipeline a call belongs to: 1 fetch baseline (and prepare
\* the two schemas), 2 diff, 3 infer database plan, 4 check, 5 render.
StageRank(op) ==
    CASE op \in {"current_datamodel_ast", "last_non_watch_applied_migration",
                 "calculator_infer", "lift_ast", "parse_datamodel", "parse"} -> 1
      [] op = "steps_infer" -> 2
      [] op \in {"database_infer", "database_infer_from_datamodels"} -> 3
      [] op = "check" -> 4
      [] op \in {"render_steps_pretty", "render_datamodel_to_string"} -> 5

\* The identifier starts with "watch", spelled out character by character.
HasWatchPrefix(id) ==
    /\ Len(id) >= 5
    /\ id[1] = "w" /\ id[2] = "a" /\ id[3] = "t" /\ id[4] = "c" /\ id[5] = "h"

\* C1 as stated: the stages run in the order fetch baseline, diff, infer
\* database plan, check destructiveness, render, in every execution, so no
\* fetch, diff or plan inference is ever called after the check.
C1_NoEarlierStageAfterCheck ==
    \A i, j \in DOMAIN log :
        i < j => StageRank(log[i].op) <= StageRank(log[j].op)

\* C1 amended: the calls are made one after another, each after the preceding
\* one has completed, along the mode's fixed order; in watch mode no earlier
\* stage runs after the check; in normal mode the check is followed by a second
\* fetch (last non-watch migration), a second diff and a second plan inference,
\* and only then by the rendering.
C1_SequentialPerMode ==
    /\ IsPrefix(Ops, IF HasWatchPrefix(input.migration_id)
                        THEN WatchStages ELSE NormalStages)
    /\ \A i \in DOMAIN log : i < Len(log) => log[i].ok
    /\ HasWatchPrefix(input.migration_id) =>
          \A i, j \in DOMAIN log :
              i < j => StageRank(log[i].op) <= StageRank(log[j].op)

C1_Witness ==
    /\ pc = "done"
    /\ ~HasWatchPrefix(input.migration_id)
    /\ Ops = NormalStages

\* C2: whatever report the destructive changes checker returns, the check
\* stage hands over to the next stage and never to the failure exit; if no
\* other call fails the command ends successfully; and a successful output
\* carries exactly the report's warnings and an empty errors list.
C2_FindingsNeverAbort ==
    /\ (log # <<>> /\ Last(log) = Call("check", TRUE, None)) =>
          /\ pc \in {"render_watch", "last_non_watch"}
          /\ result = NoResult
    /\ (pc \in {"done", "failed", "panicked"} /\ \A i \in DOMAIN log : log[i].ok) =>
          /\ pc = "done"
          /\ result.kind = "ok"
    /\ pc = "done" =>
          /\ result.kind = "ok"
          /\ result.output.warnings = local.diagnostics.warnings
          /\ result.output.errors = <<>>

C2_Witness ==
    /\ pc = "done"
    /\ local.diagnostics.errors # <<>>
    /\ local.diagnostics.warnings = <<"w2", "w1">>
    /\ result.output.warnings = <<"w2", "w1">>

\* The calls execute makes through the `?` operator.
FallibleStages ==
    {"calculator_infer", "lift_ast", "parse_datamodel", "parse", "database_infer",
     "check", "database_infer_from_datamodels", "render_steps_pretty"}

LatestSchema ==
    IF history = <<>> THEN {} ELSE history[Len(history)].schema

\* The schema of the most recent non-watch migration, empty when there is none.
LatestNonWatchSchema ==
    LET nonWatch == {i \in DOMAIN history : ~history[i].watch}
    IN  IF nonWatch = {} THEN {}
        ELSE history[CHOOSE i \in nonWatch : \A j \in nonWatch : j <= i].schema

\* The assumed schema: the caller's assumed steps on top of the latest schema.
AssumedSchema ==
    CalculatorInfer(Ast(LatestSchema), input.assume_to_be_applied).ast.ast

TargetSchema == input.datamodel.schema

\* C4: the mode is decided by the identifier's prefix alone, and a successful
\* execution returns, in watch mode, the diff from the assumed schema (latest
\* applied schema of any kind plus the assumed steps) to the target and, in
\* normal mode, the diff from the latest non-watch migration's schema (empty
\* when there is none) to the target.
C4_ModeSelectsBaseline ==
    /\ IsWatchMigration(input) = HasWatchPrefix(input.migration_id)
    /\ pc \in {"render_watch", "last_non_watch"} =>
          (pc = "render_watch") = HasWatchPrefix(input.migration_id)
    /\ pc = "done" =>
          result.output.datamodel_steps =
              IF HasWatchPrefix(input.migration_id)
                  THEN StepsInfer(Ast(AssumedSchema), Ast(TargetSchema))
                  ELSE StepsInfer(Ast(LatestNonWatchSchema), Ast(TargetSchema))

\* A normal-mode success where the two baselines give different steps.
C4_Witness ==
    /\ pc = "done"
    /\ ~HasWatchPrefix(input.migration_id)
    /\ Len(input.migration_id) > 5
    /\ result.output.datamodel_steps # local.model_migration_steps
    /\ result.output.datamodel_steps # <<>>

\* The concrete plan of each mode, from the history and the input alone.
PlanFrom(schema) ==
    DatabaseMigration(Dml(schema), Dml(TargetSchema),
                      StepsInfer(Ast(schema), Ast(TargetSchema)))

\* C5 as stated: in watch mode the concrete plan is pretty-printed, in normal
\* mode it is not: the step applier's pretty rendering is not called and the
\* output is the plan's own step list.
C5_NormalModeNotPrettyPrinted ==
    pc = "done" =>
        IF HasWatchPrefix(input.migration_id)
            THEN /\ Count(Ops, "render_steps_pretty") = 1
                 /\ result.output.database_steps = RenderStepsPretty(PlanFrom(AssumedSchema))
            ELSE /\ Count(Ops, "render_steps_pretty") = 0
                 /\ result.output.database_steps = PlanFrom(LatestNonWatchSchema).steps

\* C5 amended: the mode selects which concrete plan is output, not its form:
\* in both modes the plan is rendered by one call of render_steps_pretty; in
\* watch mode it is the plan from the assumed schema to the target, in normal
\* mode the plan from the latest non-watch migration's schema to the target.
C5_ModeSelectsRenderedPlan ==
    pc = "done" =>
        /\ Count(Ops, "render_steps_pretty") = 1
        /\ result.output.database_steps =
              IF HasWatchPrefix(input.migration_id)
                  THEN RenderStepsPretty(PlanFrom(AssumedSchema))
                  ELSE RenderStepsPretty(PlanFrom(LatestNonWatchSchema))

\* A normal-mode success whose rendered plan is not the checked one.
C5_Witness ==
    /\ pc = "done"
    /\ ~HasWatchPrefix(input.migration_id)
    /\ result.output.database_steps # <<>>
    /\ result.output.database_steps # RenderStepsPretty(local.database_migration)

\* C6: no step of the command changes the persisted migration history, so the
\* recorded migrations (and with them the current recorded schema) after the
\* command, successful or not, are those before it.
C6_HistoryOnlyRead ==
    [][history' = history /\ CurrentDatamodelAst(history') = CurrentDatamodelAst(history)]_vars

\* A finished execution over a non-empty history with assumed steps, in either
\* outcome.
C6_Witness ==
    /\ pc \in {"done", "failed"}
    /\ Len(log) >= Len(FirstPass)
    /\ history # <<>>
    /\ input.assume_to_be_applied # <<>>

\* The positions of the calls of op in the log.
CallsOf(op) == {i \in DOMAIN log : log[i].op = op}

\* C12: in every successful execution the destructive check runs exactly
\* once, on the plan from the assumed schema (current schema plus assumed
\* steps) to the target, and the returned warnings are that call's; in normal
\* mode the plan rendered and returned is the one from the last non-watch
\* migration to the target, inferred only after the check has returned and so
\* never handed to it.
C12_CheckRunsOnceOnAssumedPlan ==
    pc = "done" =>
        /\ Cardinality(CallsOf("check")) = 1
        /\ local.checked_database_migration = PlanFrom(AssumedSchema)
        /\ result.output.warnings = local.diagnostics.warnings
        /\ ~HasWatchPrefix(input.migration_id) =>
              /\ result.output.database_steps =
                    RenderStepsPretty(PlanFrom(LatestNonWatchSchema))
              /\ local.full_database_migration = PlanFrom(LatestNonWatchSchema)
              /\ Cardinality(CallsOf("database_infer_from_datamodels")) = 1
              /\ \A i \in CallsOf("check"), j \in CallsOf("database_infer_from_datamodels") :
                    i < j

\* A normal-mode success with warnings where the plan returned is not the
\* plan that was checked.
C12_Witness ==
    /\ pc = "done"
    /\ ~HasWatchPrefix(input.migration_id)
    /\ result.output.warnings = <<"w1", "w2">>
    /\ local.checked_database_migration = PlanFrom(AssumedSchema)
    /\ PlanFrom(LatestNonWatchSchema) # PlanFrom(AssumedSchema)
    /\ result.output.database_steps # RenderStepsPretty(local.checked_database_migration)
    /\ result.output.database_steps # <<>>

(***************************************************************************)
(* The dml Model (connectors/dml/src/model.rs).  Names are strings of      *)
(* characters.  Of an index, an index field and a primary key the model    *)
(* keeps what the predicates below read: the field locations, the index    *)
(* type and defined_on_field (not name, db_name, algorithm, sort_order,    *)
(* length).                                                                *)
(***************************************************************************)
MaxIndices == 2
MaxFields == 3

NameA == <<"a">>
NameB == <<"b">>
CompositeTypeName == <<"T">>
CreatedAt == <<"c", "r", "e", "a", "t", "e", "d", "A", "t">>
UpdatedAt == <<"u", "p", "d", "a", "t", "e", "d", "A", "t">>
CreatedAtLower == <<"c", "r", "e", "a", "t", "e", "d", "a", "t">>
UpdatedAtLower == <<"u", "p", "d", "a", "t", "e", "d", "a", "t">>
CreatedAtCapital == <<"C", "r", "e", "a", "t", "e", "d", "A", "t">>

UpperCase ==
    <<"A", "B", "C", "D", "E", "F", "G", "H", "I", "J", "K", "L", "M",
      "N", "O", "P", "Q", "R", "S", "T", "U", "V", "W", "X", "Y", "Z">>
LowerCase ==
    <<"a", "b", "c", "d", "e", "f", "g", "h", "i", "j", "k", "l", "m",
      "n", "o", "p", "q", "r", "s", "t", "u", "v", "w", "x", "y", "z">>

\* str::to_lowercase
ToLowercase(name) ==
    [i \in DOMAIN name |->
        IF \E k \in DOMAIN UpperCase : UpperCase[k] = name[i]
            THEN LowerCase[CHOOSE k \in DOMAIN UpperCase : UpperCase[k] = name[i]]
            ELSE name[i]]

\* Field::ScalarField / RelationField / CompositeField
ScalarField(name, tpe) == [kind |-> "scalar", name |-> name, field_type |-> tpe]
RelationField(name) == [kind |-> "relation", name |-> name, field_type |-> "Relation"]

\* IndexFieldLocation
InCurrentModel(name) == [variant |-> "InCurrentModel", field_name |-> name]
InCompositeType(ct, name) ==
    [variant |-> "InCompositeType", composite_type_name |-> ct,
     field_name |-> name, full_path |-> ct \o <<".">> \o name]

IndexField(location) == [location |-> location]

IndexDefinition(fields, tpe, dof) ==
    [fields |-> fields, tpe |-> tpe, defined_on_field |-> dof]

PrimaryKeyField(name) == [name |-> name]

PrimaryKeyDefinition(fields, dof) == [fields |-> fields, defined_on_field |-> dof]

\* Model::new
NewModel == [fields |-> <<>>, indices |-> <<>>, primary_key |-> <<>>]

\* Iterator::find: the element at the least of the matching positions, as an
\* Option (<<>> or <<x>>).
IterFind(s, hits) ==
    IF hits = {} THEN <<>>
    ELSE <<s[CHOOSE i \in hits : \A j \in hits : i <= j]>>

\* Model::add_field
AddFieldTo(m, field) == [m EXCEPT !.fields = Append(@, field)]

\* Model::add_index
AddIndexTo(m, index) == [m EXCEPT !.indices = Append(@, index)]

\* Model::scalar_fields
ScalarFields(m) == SelectSeq(m.fields, LAMBDA f : f.kind = "scalar")

\* Mutant of FindField: the last field of that name instead of the first.
FindFieldLast(m, name) ==
    LET hits == {i \in DOMAIN m.fields : m.fields[i].name = name}
    IN  IF hits = {} THEN <<>>
        ELSE <<m.fields[CHOOSE i \in hits : \A j \in hits : j <= i]>>

\* Model::find_field
FindField(m, name) ==
    IterFind(m.fields, {i \in DOMAIN m.fields : m.fields[i].name = name})

\* Model::find_scalar_field
FindScalarField(m, name) ==
    LET scalars == ScalarFields(m)
    IN  IterFind(scalars, {i \in DOMAIN scalars : scalars[i].name = name})

\* Model::has_field
HasField(m, name) == FindField(m, name) # <<>>

\* IndexDefinition::is_unique
IsUnique(index) == index.tpe = "Unique"

\* The names_match binding of field_is_unique, field_is_indexed
NamesMatch(index, name) ==
    LET location == Head(index.fields).location
    IN  IF location.variant = "InCurrentModel"
            THEN location.field_name = name
            ELSE FALSE

\* Mutant of FieldIsUnique: the index's length is not looked at.
FieldIsUniqueAnyLength(m, name) ==
    \E k \in DOMAIN m.indices :
        LET i == m.indices[k] IN IsUnique(i) /\ NamesMatch(i, name)

\* Model::field_is_unique
FieldIsUnique(m, name) ==
    \E k \in DOMAIN m.indices :
        LET i == m.indices[k]
        IN  IsUnique(i) /\ Len(i.fields) = 1 /\ NamesMatch(i, name)

\* Model::field_is_unique_and_defined_on_field
FieldIsUniqueAndDefinedOnField(m, name) ==
    \E k \in DOMAIN m.indices :
        LET i == m.indices[k]
        IN  IsUnique(i) /\ Len(i.fields) = 1 /\ NamesMatch(i, name) /\ i.defined_on_field

\* Model::field_is_primary
FieldIsPrimary(m, field_name) ==
    /\ m.primary_key # <<>>
    /\ Len(m.primary_key[1].fields) = 1
    /\ Head(m.primary_key[1].fields).name = field_name

\* A returned value, or the panic of an unwrap.
Returned(v) == [panicked |-> FALSE, value |-> v]
Panicked == [panicked |-> TRUE, value |-> FALSE]

\* Mutant of FieldIsIndexed: membership in an index instead of its leading
\* field.
FieldIsIndexedAnywhere(m, name) ==
    IF FindField(m, name) = <<>> THEN Panicked
    ELSE Returned(
            \/ FieldIsPrimary(m, name)
            \/ FieldIsUnique(m, name)
            \/ \E n \in DOMAIN m.indices :
                    \E k \in DOMAIN m.indices[n].fields :
                        m.indices[n].fields[k].location = InCurrentModel(name)
            \/ /\ m.primary_key # <<>>
               /\ Head(m.primary_key[1].fields).name = name)

\* Model::field_is_indexed
FieldIsIndexed(m, name) ==
    LET found == FindField(m, name)
    IN  IF found = <<>> THEN Panicked
        ELSE LET field == found[1]
             IN  IF FieldIsPrimary(m, field.name) \/ FieldIsUnique(m, field.name)
                     THEN Returned(TRUE)
                     ELSE LET is_first_in_index ==
                                  \E k \in DOMAIN m.indices : NamesMatch(m.indices[k], name)
                              is_first_in_primary_key ==
                                  /\ m.primary_key # <<>>
                                  /\ Head(m.primary_key[1].fields).name = name
                          IN  Returned(is_first_in_index \/ is_first_in_primary_key)

\* FieldType::is_datetime
IsDatetime(f) == f.field_type = "DateTime"

\* Mutant of HasTimestampField: no fallback to the lowercase name.
HasTimestampFieldExact(m, name) ==
    LET found == FindScalarField(m, name)
    IN  IF found = <<>> THEN FALSE ELSE IsDatetime(found[1])

\* The inner fn has_field of has_created_at_and_updated_at
HasTimestampField(m, name) ==
    LET exact == FindScalarField(m, name)
        found == IF exact # <<>> THEN exact
                 ELSE FindScalarField(m, ToLowercase(name))
    IN  IF found = <<>> THEN FALSE ELSE IsDatetime(found[1])

\* Model::has_created_at_and_updated_at
HasCreatedAtAndUpdatedAt(m) ==
    HasTimestampField(m, CreatedAt) /\ HasTimestampField(m, UpdatedAt)

(***************************************************************************)
(* SpecModel: a model with fields a, b is given indexes one add_index at a *)
(* time and is asked field_is_indexed, field_is_unique and                 *)
(* field_is_unique_and_defined_on_field.                                   *)
(***************************************************************************)
NoCall == [op |-> "none"]

Answer(op, name, r) ==
    [op |-> op, name |-> name, panicked |-> r.panicked, value |-> r.value]

\* The field lists of the indexes: single, multi-field, and through the
\* composite type T.  Never empty.
IndexFieldLists ==
    { <<IndexField(InCurrentModel(NameA))>>,
      <<IndexField(InCurrentModel(NameB))>>,
      <<IndexField(InCurrentModel(NameA)), IndexField(InCurrentModel(NameB))>>,
      <<IndexField(InCompositeType(CompositeTypeName, NameA))>>,
      <<IndexField(InCompositeType(CompositeTypeName, NameA)),
        IndexField(InCurrentModel(NameB))>> }

\* @unique on a field, @@unique, @@index, @@fulltext
IndexKinds ==
    {<<"Unique", TRUE>>, <<"Unique", FALSE>>, <<"Normal", FALSE>>, <<"Fulltext", FALSE>>}

IndexDefinitions ==
    {IndexDefinition(fs, k[1], k[2]) : fs \in IndexFieldLists, k \in IndexKinds}

\* no primary key, @id on a, @@id([a, b]), @@id([b, a])
PrimaryKeys ==
    { <<>>,
      <<PrimaryKeyDefinition(<<PrimaryKeyField(NameA)>>, TRUE)>>,
      <<PrimaryKeyDefinition(<<PrimaryKeyField(NameA), PrimaryKeyField(NameB)>>, FALSE)>>,
      <<PrimaryKeyDefinition(<<PrimaryKeyField(NameB), PrimaryKeyField(NameA)>>, FALSE)>> }

IndexedModelFields ==
    { <<ScalarField(NameA, "Int"), ScalarField(NameB, "Int")>>,
      <<ScalarField(NameA, "Int")>> }

QueryNames == {NameA, NameB}

ModelInit ==
    /\ model \in [fields : IndexedModelFields, indices : {<<>>},
                  primary_key : PrimaryKeys]
    /\ ret = NoCall
    /\ history = Idle /\ input = Idle /\ pc = Idle /\ log = Idle
    /\ local = Idle /\ result = Idle /\ db = Idle /\ criteria = Idle

\* Model::add_index
AddIndex ==
    /\ Len(model.indices) < MaxIndices
    /\ \E index \in IndexDefinitions : model' = AddIndexTo(model, index)
    /\ ret' = NoCall
    /\ UNCHANGED <<cmdVars, criteriaVars>>

FieldIsIndexedCall ==
    /\ \E name \in QueryNames :
          ret' = Answer("field_is_indexed", name, FieldIsIndexed(model, name))
    /\ UNCHANGED <<model, cmdVars, criteriaVars>>

FieldIsUniqueCall ==
    /\ \E name \in QueryNames :
          ret' = Answer("field_is_unique", name, Returned(FieldIsUnique(model, name)))
    /\ UNCHANGED <<model, cmdVars, criteriaVars>>

FieldIsUniqueAndDefinedOnFieldCall ==
    /\ \E name \in QueryNames :
          ret' = Answer("field_is_unique_and_defined_on_field", name,
                        Returned(FieldIsUniqueAndDefinedOnField(model, name)))
    /\ UNCHANGED <<model, cmdVars, criteriaVars>>

ModelNext ==
    \/ AddIndex
    \/ FieldIsIndexedCall
    \/ FieldIsUniqueCall
    \/ FieldIsUniqueAndDefinedOnFieldCall

SpecModel == ModelInit /\ [][ModelNext]_vars

(***************************************************************************)
(* SpecTimestamps: a new model is given fields one add_field at a time and *)
(* is asked has_created_at_and_updated_at.                                 *)
(***************************************************************************)
TimestampNames ==
    {CreatedAt, CreatedAtLower, CreatedAtCapital, UpdatedAt, UpdatedAtLower}

TimestampFields ==
    {ScalarField(n, t) : n \in TimestampNames, t \in {"DateTime", "Int"}}
        \cup {RelationField(n) : n \in TimestampNames}

TimestampsInit ==
    /\ model = NewModel
    /\ ret = NoCall
    /\ history = Idle /\ input = Idle /\ pc = Idle /\ log = Idle
    /\ local = Idle /\ result = Idle /\ db = Idle /\ criteria = Idle

\* Model::add_field
AddField ==
    /\ Len(model.fields) < MaxFields
    /\ \E field \in TimestampFields : model' = AddFieldTo(model, field)
    /\ ret' = NoCall
    /\ UNCHANGED <<cmdVars, criteriaVars>>

HasCreatedAtAndUpdatedAtCall ==
    /\ ret' = Answer("has_created_at_and_updated_at", <<>>,
                     Returned(HasCreatedAtAndUpdatedAt(model)))
    /\ UNCHANGED <<model, cmdVars, criteriaVars>>

TimestampsNext ==
    \/ AddField
    \/ HasCreatedAtAndUpdatedAtCall

SpecTimestamps == TimestampsInit /\ [][TimestampsNext]_vars

(***************************************************************************)
(* SpecFields: a model that already has a primary key and indexes gets     *)
(* fields added, some of them under a name it already has, and is asked    *)
(* find_field and has_field.                                               *)
(***************************************************************************)
AddedFields ==
    { ScalarField(NameA, "Int"), ScalarField(NameA, "DateTime"),
      RelationField(NameA), ScalarField(NameB, "Int") }

FieldsIndices ==
    { <<>>,
      <<IndexDefinition(<<IndexField(InCurrentModel(NameA))>>, "Unique", TRUE)>>,
      <<IndexDefinition(<<IndexField(InCurrentModel(NameB))>>, "Normal", FALSE),
        IndexDefinition(<<IndexField(InCurrentModel(NameA)),
                          IndexField(InCurrentModel(NameB))>>, "Unique", FALSE)>> }

FieldsInit ==
    /\ \E pk \in PrimaryKeys, indices \in FieldsIndices :
          model = [NewModel EXCEPT !.primary_key = pk, !.indices = indices]
    /\ ret = NoCall
    /\ history = Idle /\ input = Idle /\ pc = Idle
    /\ log = Idle /\ local = Idle /\ result = Idle
    /\ db = Idle /\ criteria = Idle

\* Model::add_field
AddFieldCall ==
    /\ Len(model.fields) < MaxFields
    /\ \E field \in AddedFields :
          /\ model' = AddFieldTo(model, field)
          /\ ret' = [op |-> "add_field", name |-> field.name,
                     panicked |-> FALSE, value |-> field]
    /\ UNCHANGED <<cmdVars, criteriaVars>>

FindFieldCall ==
    /\ \E name \in QueryNames :
          ret' = Answer("find_field", name, Returned(FindField(model, name)))
    /\ UNCHANGED <<model, cmdVars, criteriaVars>>

HasFieldCall ==
    /\ \E name \in QueryNames :
          ret' = Answer("has_field", name, Returned(HasField(model, name)))
    /\ UNCHANGED <<model, cmdVars, criteriaVars>>

FieldsNext ==
    \/ AddFieldCall
    \/ FindFieldCall
    \/ HasFieldCall

SpecFields == FieldsInit /\ [][FieldsNext]_vars

(***************************************************************************)
(* Properties of the dml Model.                                            *)
(***************************************************************************)
HasFieldNamed(name) == \E i \in DOMAIN model.fields : model.fields[i].name = name

HasPrimaryKey == model.primary_key # <<>>

PrimaryKeyFields == model.primary_key[1].fields

\* The name is the single-field primary key.
IsSinglePrimaryKey(name) ==
    HasPrimaryKey /\ PrimaryKeyFields = <<PrimaryKeyField(name)>>

\* The name is the target of a single-field unique index.
IsSingleUniqueTarget(name) ==
    \E i \in DOMAIN model.indices :
        /\ model.indices[i].tpe = "Unique"
        /\ model.indices[i].fields = <<IndexField(InCurrentModel(name))>>

\* The name is the first field of some index or of the primary key.
IsLeadingField(name) ==
    \/ \E i \in DOMAIN model.indices :
          model.indices[i].fields[1] = IndexField(InCurrentModel(name))
    \/ HasPrimaryKey /\ PrimaryKeyFields[1] = PrimaryKeyField(name)

\* The name is a field of the model at position k of some index.
IsIndexFieldAt(name, k) ==
    \E i \in DOMAIN model.indices :
        /\ k \in DOMAIN model.indices[i].fields
        /\ model.indices[i].fields[k] = IndexField(InCurrentModel(name))

\* C7: for a name that exists in the model, field_is_indexed(name) returns
\* true iff the name is the single-field primary key, or the target of a
\* single-field unique index, or the first field of some index or of the
\* primary key; so it is true for the leading field of a multi-field index and
\* false for a field that is only ever a trailing field.
C7_FieldIsIndexedIffLeading ==
    (ret.op = "field_is_indexed" /\ HasFieldNamed(ret.name)) =>
        /\ ~ret.panicked
        /\ ret.value = (\/ IsSinglePrimaryKey(ret.name)
                        \/ IsSingleUniqueTarget(ret.name)
                        \/ IsLeadingField(ret.name))
        /\ (\E i \in DOMAIN model.indices :
                /\ Len(model.indices[i].fields) >= 2
                /\ model.indices[i].fields[1] = IndexField(InCurrentModel(ret.name)))
              => ret.value
        /\ (/\ IsIndexFieldAt(ret.name, 2)
            /\ ~IsIndexFieldAt(ret.name, 1)
            /\ ~(HasPrimaryKey /\ \E k \in DOMAIN PrimaryKeyFields :
                                      PrimaryKeyFields[k].name = ret.name))
              => ~ret.value

\* field_is_indexed(b) asked of a model with the index [a, b], b in no other
\* index or key.
C7_Witness ==
    /\ ret.op = "field_is_indexed"
    /\ ret.name = NameB
    /\ HasFieldNamed(NameB)
    /\ ~ret.value
    /\ IsIndexFieldAt(NameB, 2)
    /\ IsIndexFieldAt(NameA, 1)
    /\ FieldIsIndexed(model, NameA).value

\* Some scalar field of date/time type is named n.
HasDatetimeScalarNamed(n) ==
    \E i \in DOMAIN model.fields :
        /\ model.fields[i].kind = "scalar"
        /\ model.fields[i].field_type = "DateTime"
        /\ model.fields[i].name = n

\* The first scalar field named n, when there is one, is of date/time type.
FirstScalarNamedIsDatetime(n) ==
    \E i \in DOMAIN model.fields :
        /\ model.fields[i].kind = "scalar"
        /\ model.fields[i].name = n
        /\ model.fields[i].field_type = "DateTime"
        /\ \A j \in 1..(i - 1) :
              ~(model.fields[j].kind = "scalar" /\ model.fields[j].name = n)

HasScalarNamed(n) ==
    \E i \in DOMAIN model.fields :
        model.fields[i].kind = "scalar" /\ model.fields[i].name = n

\* The data model's invariant: field names are unique within a model.
UniqueFieldNames ==
    \A i, j \in DOMAIN model.fields :
        model.fields[i].name = model.fields[j].name => i = j

\* C9 as stated: has_created_at_and_updated_at is true iff, for createdAt and
\* for updatedAt, some date/time scalar field is named that name or its
\* lowercase form; stated here for the models whose field names are unique,
\* which include those holding both spellings of a name with different types.
C9_TrueIffSomeSpellingIsDatetime ==
    (ret.op = "has_created_at_and_updated_at" /\ UniqueFieldNames) =>
        ret.value =
            (/\ HasDatetimeScalarNamed(CreatedAt) \/ HasDatetimeScalarNamed(CreatedAtLower)
             /\ HasDatetimeScalarNamed(UpdatedAt) \/ HasDatetimeScalarNamed(UpdatedAtLower))

\* C9 amended: has_created_at_and_updated_at is true iff, for createdAt and
\* for updatedAt, the first scalar field with exactly that name is of date/time
\* type or, only when no scalar field has that name, the first scalar field
\* with its lowercase form is of date/time type.
C9_TrueIffExactElseLowercaseIsDatetime ==
    ret.op = "has_created_at_and_updated_at" =>
        ret.value =
            (/\ IF HasScalarNamed(CreatedAt)
                    THEN FirstScalarNamedIsDatetime(CreatedAt)
                    ELSE FirstScalarNamedIsDatetime(CreatedAtLower)
             /\ IF HasScalarNamed(UpdatedAt)
                    THEN FirstScalarNamedIsDatetime(UpdatedAt)
                    ELSE FirstScalarNamedIsDatetime(UpdatedAtLower))

\* The answer is true through the lowercase fallback for one name.
C9_Witness ==
    /\ ret.op = "has_created_at_and_updated_at"
    /\ ret.value
    /\ ~HasScalarNamed(CreatedAt)
    /\ HasDatetimeScalarNamed(CreatedAtLower)
    /\ HasDatetimeScalarNamed(UpdatedAt)

\* The index i is a unique index of exactly one field, located in the current
\* model and named name.
IsSingleUniqueOn(i, name) ==
    /\ model.indices[i].tpe = "Unique"
    /\ Len(model.indices[i].fields) = 1
    /\ model.indices[i].fields[1].location.variant = "InCurrentModel"
    /\ model.indices[i].fields[1].location.field_name = name

\* C10: field_is_unique(name) is true exactly when the model has a unique
\* index of one field, in the current model, named name;
\* field_is_unique_and_defined_on_field(name) exactly when such an index is a
\* field-level shorthand; so the second implies the first, and both are false
\* for a name that is only in multi-field unique indexes, non-unique indexes or
\* composite-type paths.
C10_UniqueOnlyForSingleFieldUniqueIndex ==
    /\ ret.op = "field_is_unique" =>
          ret.value = (\E i \in DOMAIN model.indices : IsSingleUniqueOn(i, ret.name))
    /\ ret.op = "field_is_unique_and_defined_on_field" =>
          /\ ret.value =
                (\E i \in DOMAIN model.indices :
                    IsSingleUniqueOn(i, ret.name) /\ model.indices[i].defined_on_field)
          /\ ret.value => FieldIsUnique(model, ret.name)
    /\ \A name \in QueryNames :
          /\ FieldIsUniqueAndDefinedOnField(model, name) => FieldIsUnique(model, name)
          /\ (\A i \in DOMAIN model.indices :
                 \/ Len(model.indices[i].fields) > 1
                 \/ model.indices[i].tpe # "Unique"
                 \/ model.indices[i].fields[1].location.variant = "InCompositeType")
                => (~FieldIsUnique(model, name) /\ ~FieldIsUniqueAndDefinedOnField(model, name))

\* field_is_unique(a) answered false for a model whose indexes are a
\* multi-field unique index led by a and a unique index on T.a.
C10_Witness ==
    /\ ret.op = "field_is_unique"
    /\ ret.name = NameA
    /\ ~ret.value
    /\ \E i, j \in DOMAIN model.indices :
          /\ model.indices[i].tpe = "Unique"
          /\ Len(model.indices[i].fields) = 2
          /\ model.indices[i].fields[1] = IndexField(InCurrentModel(NameA))
          /\ model.indices[j].tpe = "Unique"
          /\ model.indices[j].fields = <<IndexField(InCompositeType(CompositeTypeName, NameA))>>

(***************************************************************************)
(* The UniqueCriteriaWalker (parser-database, walkers/model/               *)
(* unique_criteria.rs).  db holds the two lookup tables of                 *)
(* ParserDatabase.types the walker reads; of a field they keep whether it  *)
(* is optional and whether its type is unsupported.                        *)
(***************************************************************************)
MaxCriteriaFields == 2

ModelId == 0
FieldIds == {0, 1}
CompositeTypeIds == {0}
CompositeFieldIds == {0}

FieldAttributes == [optional : BOOLEAN, unsupported : BOOLEAN]

\* types::IndexFieldLocation
InModel(field_id) == [variant |-> "InModel", field_id |-> field_id]
InCompositeTypeId(ctid, field_id) ==
    [variant |-> "InCompositeType", ctid |-> ctid, field_id |-> field_id]

FieldLocations ==
    {InModel(f) : f \in FieldIds}
        \cup {InCompositeTypeId(c, f) : c \in CompositeTypeIds, f \in CompositeFieldIds}

\* types::FieldWithArgs
FieldWithArgs(location) == [field_location |-> location]

\* UniqueCriteriaWalker::fields: each field resolved to an IndexFieldWalker
\* over a ScalarFieldWalker or a CompositeTypeFieldWalker.
Fields(walker) ==
    [i \in DOMAIN walker.fields |->
        LET location == walker.fields[i].field_location
        IN  IF location.variant = "InModel"
                THEN [walker |-> "ScalarFieldWalker",
                      model_id |-> walker.model_id,
                      field_id |-> location.field_id,
                      field |-> walker.db.scalar_fields[<<walker.model_id, location.field_id>>]]
                ELSE [walker |-> "CompositeTypeFieldWalker",
                      ctid |-> location.ctid,
                      field_id |-> location.field_id,
                      field |-> walker.db.composite_type_fields[<<location.ctid, location.field_id>>]]]

\* IndexFieldWalker::is_optional
IsOptional(field) == field.field.optional

\* IndexFieldWalker::is_unsupported
IsUnsupported(field) == field.field.unsupported

\* UniqueCriteriaWalker::has_optional_fields
HasOptionalFields(walker) ==
    \E i \in DOMAIN Fields(walker) : IsOptional(Fields(walker)[i])

\* UniqueCriteriaWalker::has_unsupported_fields
HasUnsupportedFields(walker) ==
    \E i \in DOMAIN Fields(walker) : IsUnsupported(Fields(walker)[i])

\* Mutant of IsStrictCriteria: strict as soon as one of the two tests passes.
IsStrictCriteriaEither(walker) ==
    ~HasOptionalFields(walker) \/ ~HasUnsupportedFields(walker)

\* UniqueCriteriaWalker::is_strict_criteria
IsStrictCriteria(walker) ==
    ~HasOptionalFields(walker) /\ ~HasUnsupportedFields(walker)

UniqueCriteriaWalker == [model_id |-> ModelId, fields |-> criteria, db |-> db]

CriteriaInit ==
    /\ db \in [scalar_fields : [{ModelId} \X FieldIds -> FieldAttributes],
               composite_type_fields :
                   [CompositeTypeIds \X CompositeFieldIds -> FieldAttributes]]
    /\ criteria \in SeqsUpTo({FieldWithArgs(l) : l \in FieldLocations}, MaxCriteriaFields)
    /\ ret = NoCall
    /\ history = Idle /\ input = Idle /\ pc = Idle /\ log = Idle
    /\ local = Idle /\ result = Idle /\ model = Idle

IsStrictCriteriaCall ==
    /\ ret' = Answer("is_strict_criteria", <<>>,
                     Returned(IsStrictCriteria(UniqueCriteriaWalker)))
    /\ UNCHANGED <<model, cmdVars, criteriaVars>>

HasUnsupportedFieldsCall ==
    /\ ret' = Answer("has_unsupported_fields", <<>>,
                     Returned(HasUnsupportedFields(UniqueCriteriaWalker)))
    /\ UNCHANGED <<model, cmdVars, criteriaVars>>

CriteriaNext ==
    \/ IsStrictCriteriaCall
    \/ HasUnsupportedFieldsCall

SpecCriteria == CriteriaInit /\ [][CriteriaNext]_vars

\* The attributes of the field a criteria entry points at.
AttributesAt(i) ==
    LET location == criteria[i].field_location
    IN  IF location.variant = "InModel"
            THEN db.scalar_fields[<<ModelId, location.field_id>>]
            ELSE db.composite_type_fields[<<location.ctid, location.field_id>>]

\* C8: is_strict_criteria is false whenever some field of the criteria, in the
\* model or inside a composite type, is optional or of unsupported type, and
\* true otherwise.
C8_StrictIffNoOptionalNoUnsupported ==
    ret.op = "is_strict_criteria" =>
        ret.value =
            ~(\E i \in DOMAIN criteria :
                  AttributesAt(i).optional \/ AttributesAt(i).unsupported)

\* A strict criteria over a model field and a composite-type field, while
\* another field of the model is optional.
C8_Witness ==
    /\ ret.op = "is_strict_criteria"
    /\ ret.value
    /\ Len(criteria) = 2
    /\ \E i \in DOMAIN criteria : criteria[i].field_location.variant = "InCompositeType"
    /\ \E i \in DOMAIN criteria : criteria[i].field_location.variant = "InModel"
    /\ \E f \in FieldIds : db.scalar_fields[<<ModelId, f>>].optional

(***************************************************************************)
(* Properties of add_field, find_field and has_field (SpecFields).         *)
(***************************************************************************)
\* The positions of the fields named name.
PositionsNamed(name) == {i \in DOMAIN model.fields : model.fields[i].name = name}

\* The step is an add_field call.
IsAddField == ret'.op = "add_field"

\* An add_field call appends its field at the end of the fields and leaves
\* the earlier fields, the indexes and the primary key as they were.
AppendsOneField ==
    IsAddField =>
        /\ Len(model'.fields) = Len(model.fields) + 1
        /\ SubSeq(model'.fields, 1, Len(model.fields)) = model.fields
        /\ Last(model'.fields) = ret'.value
        /\ model'.indices = model.indices
        /\ model'.primary_key = model.primary_key

\* An add_field call never changes what find_field answers for a name the
\* model already has.
FindFieldStable ==
    IsAddField =>
        \A name \in QueryNames :
            FindField(model, name) # <<>> =>
                FindField(model', name) = FindField(model, name)

\* find_field answers the earliest field of that name and has_field answers
\* whether find_field finds one.
FindFieldEarliest ==
    /\ ret.op = "find_field" =>
          IF PositionsNamed(ret.name) = {}
              THEN ret.value = <<>>
              ELSE \E i \in PositionsNamed(ret.name) :
                      /\ \A j \in PositionsNamed(ret.name) : i <= j
                      /\ ret.value = <<model.fields[i]>>
    /\ ret.op = "has_field" =>
          /\ ret.value = (PositionsNamed(ret.name) # {})
          /\ ret.value = (FindField(model, ret.name) # <<>>)

\* C11: every add_field appends the field at the end of the model's fields,
\* nothing is deduplicated or reordered and the indexes and the primary key
\* are unchanged, so the fields are the added fields in call order;
\* find_field(name) returns the earliest-added field of that name and keeps
\* returning it when a second field of that name is added; has_field(name) is
\* true iff find_field(name) finds a field.
C11_AddFieldAppendsFindFieldFirst ==
    /\ []FindFieldEarliest
    /\ [][AppendsOneField /\ FindFieldStable]_vars

\* find_field(a) answers the first of three fields named a, on a model with
\* a primary key and an index; the last one added has another type.
C11_Witness ==
    /\ ret.op = "find_field"
    /\ ret.name = NameA
    /\ model.primary_key # <<>>
    /\ model.indices # <<>>
    /\ Len(model.fields) = 3
    /\ model.fields[1] = ScalarField(NameA, "Int")
    /\ model.fields[2] = RelationField(NameA)
    /\ model.fields[3] = ScalarField(NameA, "DateTime")
    /\ ret.value = <<ScalarField(NameA, "Int")>>

====
